---- MODULE Spec2Model ----
(***************************************************************************)
(* A model of scripts/code_review.py: the ReviewResult aggregator, the     *)
(* per-artifact detectors of CodeReviewer, the external tool steps and the *)
(* quality tier decision of review_files.                                  *)
(*                                                                         *)
(* Regular expressions are not interpreted: a source line is the set of    *)
(* rule names whose pattern matches it ("comment": the stripped line       *)
(* starts with #; "async_def": it contains the text async def).  A Python  *)
(* artifact carries the declarations its text holds (nodes) and,           *)
(* separately, whether ast.parse accepts the text.  A coverage percentage  *)
(* is a whole number: the code compares it with 60 and 80 only.            *)
(***************************************************************************)
EXTENDS Integers, Sequences, FiniteSets, TLC

VARIABLES
    result,         \* self.result, the ReviewResult of the CodeReviewer
    files,          \* the argument of review_files
    idx,            \* number of files the loop of review_files has handled
    pc,             \* position inside review_files
    has_tests,      \* (root_path / "tests").exists()
    proc,           \* what the last subprocess.run did
    coverage_file,  \* what _check_test_coverage found at coverage.json
    calls,          \* the issues a client has passed to add_issue itself (AddIssue)
    call_no         \* number of review_files calls made on this CodeReviewer

vars == <<result, files, idx, pc, has_tests, proc, coverage_file, calls, call_no>>

(***************************************************************************)
(* Bounds of the model.                                                    *)
(***************************************************************************)
MaxFiles == 2
MaxLines == 2
MaxNodes == 2
MaxStdout == 2
MaxCalls == 4
MaxWarnings == 2
MaxNotes == 1
MaxReviews == 2
MaxCoverage == 100

(***************************************************************************)
(* Severity, Category, Issue.                                              *)
(***************************************************************************)
Severity == {"blocking", "warning", "nitpick"}

Category == {"security", "quality", "testing", "documentation", "async", "pattern"}

\* An absent line number (None) is the empty sequence, line n is <<n>>.
NoLine == << >>

Issue(severity, category, file, line, title) ==
    [severity |-> severity, category |-> category, file |-> file,
     line |-> line, title |-> title]

(***************************************************************************)
(* ReviewResult.                                                           *)
(***************************************************************************)
ReviewResult ==
    [blocking |-> << >>, warnings |-> << >>, nitpicks |-> << >>,
     positives |-> << >>, coverage_percent |-> 0, quality_tier |-> "Unknown",
     files_reviewed |-> 0]

\* add_issue putting the issue at the head of its bucket.
add_issue_prepends(r, issue) ==
    IF issue.severity = "blocking"
    THEN [r EXCEPT !.blocking = <<issue>> \o @]
    ELSE IF issue.severity = "warning"
         THEN [r EXCEPT !.warnings = <<issue>> \o @]
         ELSE [r EXCEPT !.nitpicks = <<issue>> \o @]

\* add_issue without its last branch: a nitpick lands among the warnings.
add_issue_misfiled(r, issue) ==
    IF issue.severity = "blocking"
    THEN [r EXCEPT !.blocking = Append(@, issue)]
    ELSE [r EXCEPT !.warnings = Append(@, issue)]

add_issue(r, issue) ==
    IF issue.severity = "blocking"
    THEN [r EXCEPT !.blocking = Append(@, issue)]
    ELSE IF issue.severity = "warning"
         THEN [r EXCEPT !.warnings = Append(@, issue)]
         ELSE [r EXCEPT !.nitpicks = Append(@, issue)]

\* has_blocking_issues looking at the warnings as well.
has_blocking_issues_or_warnings(r) == Len(r.blocking) + Len(r.warnings) > 0

\* has_blocking_issues with the comparison off by one.
has_blocking_issues_more_than_one(r) == Len(r.blocking) > 1

has_blocking_issues(r) == Len(r.blocking) > 0

total_issues(r) == Len(r.blocking) + Len(r.warnings) + Len(r.nitpicks)

add_positive(r, note) == [r EXCEPT !.positives = Append(@, note)]

(***************************************************************************)
(* Artifacts.  Every artifact is a record of the same shape; the fields a  *)
(* kind of file does not use hold a default.                               *)
(*   readable    file.read_text() returns (else it raises OSError or       *)
(*               UnicodeDecodeError)                                       *)
(*   lines       content.split("\n"): each line is the set of rules that   *)
(*               match it                                                  *)
(*   parse       "ok" or "SyntaxError": what ast.parse(content) does       *)
(*   lineno      e.lineno of that SyntaxError                              *)
(*   nodes       the declarations of the text, in ast.walk order           *)
(*   json        what json.loads gives: "invalid" (JSONDecodeError), an    *)
(*               "object", an "array" or a "scalar" (null, number, bool)   *)
(*   keys        the keys of the object, or the strings of the array       *)
(*   config_flow the value of the key config_flow: "absent", "false",      *)
(*               "true"                                                    *)
(***************************************************************************)
SensorPy == "custom_components/demo/sensor.py"
TestPy == "custom_components/demo/test_sensor.py"
ManifestJson == "custom_components/demo/manifest.json"
StringsJson == "custom_components/demo/strings.json"
ReadmeMd == "custom_components/demo/README.md"

Paths == {SensorPy, TestPy, ManifestJson, StringsJson, ReadmeMd}

\* file.suffix
suffix(path) ==
    CASE path \in {SensorPy, TestPy} -> ".py"
      [] path \in {ManifestJson, StringsJson} -> ".json"
      [] OTHER -> ".md"

\* file.name
name(path) ==
    CASE path = SensorPy -> "sensor.py"
      [] path = TestPy -> "test_sensor.py"
      [] path = ManifestJson -> "manifest.json"
      [] path = StringsJson -> "strings.json"
      [] OTHER -> "README.md"

\* "test" in str(file).lower()
has_test_marker(path) == path = TestPy

Artifact(path, readable, lines, parse, lineno, nodes, json, keys, config_flow) ==
    [path |-> path, readable |-> readable, lines |-> lines, parse |-> parse,
     lineno |-> lineno, nodes |-> nodes, json |-> json, keys |-> keys,
     config_flow |-> config_flow]

PyFile(path, readable, lines, parse, lineno, nodes) ==
    Artifact(path, readable, lines, parse, lineno, nodes, "none", {}, "absent")

JsonFile(path, readable, json, keys, config_flow) ==
    Artifact(path, readable, << >>, "none", NoLine, << >>, json, keys, config_flow)

OtherFile(path) ==
    Artifact(path, TRUE, << >>, "none", NoLine, << >>, "none", {}, "absent")

\* The rule names a line can match.
PlainLine == {}
LineKinds ==
    { {}, {"hardcoded_key"}, {"hardcoded_key", "comment"},
      {"hardcoded_key", "eval_usage"}, {"sql_injection"},
      {"shell_injection"}, {"async_def"}, {"requests_in_async"},
      {"blocking_sleep"} }

\* Syntax tree nodes: a function declaration, a handler, anything else.
Node(type, fname, returns, catches) ==
    [type |-> type, name |-> fname, returns |-> returns, catches |-> catches]

NodeKinds ==
    { Node("FunctionDef", "setup", FALSE, "none"),
      Node("FunctionDef", "setup", TRUE, "none"),
      Node("FunctionDef", "_helper", FALSE, "none"),
      Node("AsyncFunctionDef", "async_setup", FALSE, "none"),
      Node("ExceptHandler", "", FALSE, "bare"),
      Node("ExceptHandler", "", FALSE, "Exception"),
      Node("ExceptHandler", "", FALSE, "ValueError"),
      Node("Pass", "", FALSE, "none") }

\* node.name.startswith("_")
is_private(fname) == fname = "_helper"

\* node.lineno: the model puts the k-th node on line k.
node_lineno(k) == <<k>>

SeqsUpTo(S, n) == UNION { [1..k -> S] : k \in 0..n }

(***************************************************************************)
(* _check_security_issues, _check_ha_patterns, _check_ast_patterns.        *)
(***************************************************************************)
\* pattern.search(content): some line matches (the rules used on the whole
\* content do not match across a line break, "." excludes "\n").
search(rule, file) == \E i \in 1..Len(file.lines) : rule \in file.lines[i]

\* hardcoded_credentials without the test of line.strip().startswith("#").
RECURSIVE hardcoded_credentials_in_comments(_, _, _)
hardcoded_credentials_in_comments(r, file, i) ==
    IF i > Len(file.lines) THEN r
    ELSE IF /\ "hardcoded_key" \in file.lines[i]
            /\ ~has_test_marker(file.path)
         THEN hardcoded_credentials_in_comments(
                  add_issue(r, Issue("blocking", "security", file.path, <<i>>,
                                     "Hardcoded Credential")),
                  file, i + 1)
         ELSE hardcoded_credentials_in_comments(r, file, i + 1)

RECURSIVE hardcoded_credentials(_, _, _)
hardcoded_credentials(r, file, i) ==
    IF i > Len(file.lines) THEN r
    ELSE IF /\ "hardcoded_key" \in file.lines[i]
            /\ ~has_test_marker(file.path)
            /\ "comment" \notin file.lines[i]
         THEN hardcoded_credentials(
                  add_issue(r, Issue("blocking", "security", file.path, <<i>>,
                                     "Hardcoded Credential")),
                  file, i + 1)
         ELSE hardcoded_credentials(r, file, i + 1)

\* _check_security_issues with the three content rules chained by elif.
_check_security_issues_first_match(r, file) ==
    LET r1 == hardcoded_credentials(r, file, 1)
    IN  IF search("sql_injection", file)
        THEN add_issue(r1, Issue("blocking", "security", file.path, NoLine,
                                 "Potential SQL Injection"))
        ELSE IF search("eval_usage", file)
        THEN add_issue(r1, Issue("blocking", "security", file.path, NoLine,
                                 "Unsafe eval() Usage"))
        ELSE IF search("shell_injection", file)
        THEN add_issue(r1, Issue("blocking", "security", file.path, NoLine,
                                 "Shell Injection Risk"))
        ELSE r1

_check_security_issues(r, file) ==
    LET r1 == hardcoded_credentials(r, file, 1)
        r2 == IF search("sql_injection", file)
              THEN add_issue(r1, Issue("blocking", "security", file.path, NoLine,
                                       "Potential SQL Injection"))
              ELSE r1
        r3 == IF search("eval_usage", file)
              THEN add_issue(r2, Issue("blocking", "security", file.path, NoLine,
                                       "Unsafe eval() Usage"))
              ELSE r2
    IN  IF search("shell_injection", file)
        THEN add_issue(r3, Issue("blocking", "security", file.path, NoLine,
                                 "Shell Injection Risk"))
        ELSE r3

_check_ha_patterns(r, file) ==
    LET r1 == IF search("async_def", file) /\ search("requests_in_async", file)
              THEN add_issue(r, Issue("blocking", "async", file.path, NoLine,
                                      "Blocking I/O in Async Function"))
              ELSE r
    IN  IF search("async_def", file) /\ search("blocking_sleep", file)
        THEN add_issue(r1, Issue("blocking", "async", file.path, NoLine,
                                 "Blocking Sleep in Async Function"))
        ELSE r1

check_node(r, file, node, k) ==
    LET r1 == IF /\ node.type = "FunctionDef"
                 /\ ~node.returns
                 /\ ~is_private(node.name)
              THEN add_issue(r, Issue("warning", "quality", file.path,
                                      node_lineno(k), "Missing Return Type Hint"))
              ELSE r
    IN  IF node.type = "ExceptHandler" /\ node.catches \in {"bare", "Exception"}
        THEN add_issue(r1, Issue("warning", "quality", file.path,
                                 node_lineno(k), "Broad Exception Catching"))
        ELSE r1

RECURSIVE walk(_, _, _, _)
walk(r, file, tree, k) ==
    IF k > Len(tree) THEN r
    ELSE walk(check_node(r, file, tree[k], k), file, tree, k + 1)

_check_ast_patterns(r, file, tree) == walk(r, file, tree, 1)

(***************************************************************************)
(* _review_python_file, _review_manifest, _review_strings.  A reviewer     *)
(* gives the new ReviewResult and the exception that leaves it ("none"     *)
(* when it returns).                                                       *)
(***************************************************************************)
Outcome(r, exc) == [r |-> r, exc |-> exc]

\* ast.parse(content), when it returns
ast_parse(file) == file.nodes

\* _review_python_file analysing the declarations of a text that did not parse.
_review_python_file_best_effort(r, file) ==
    IF ~file.readable THEN Outcome(r, "none")
    ELSE LET r1 == _check_security_issues(r, file)
             r2 == _check_ha_patterns(r1, file)
             r3 == _check_ast_patterns(r2, file, ast_parse(file))
         IN  IF file.parse = "ok" THEN Outcome(r3, "none")
             ELSE Outcome(add_issue(r3, Issue("blocking", "quality", file.path,
                                              file.lineno, "Syntax Error")),
                          "none")

_review_python_file(r, file) ==
    IF ~file.readable
    THEN \* read_text raised: except Exception prints and returns
         Outcome(r, "none")
    ELSE LET r1 == _check_security_issues(r, file)
             r2 == _check_ha_patterns(r1, file)
         IN  IF file.parse = "ok"
             THEN Outcome(_check_ast_patterns(r2, file, ast_parse(file)), "none")
             ELSE Outcome(add_issue(r2, Issue("blocking", "quality", file.path,
                                              file.lineno, "Syntax Error")),
                          "none")

required_fields ==
    << "domain", "name", "version", "codeowners", "documentation",
       "iot_class", "integration_type" >>

RECURSIVE missing_fields(_, _, _)
missing_fields(r, file, i) ==
    IF i > Len(required_fields) THEN r
    ELSE IF required_fields[i] \notin file.keys
         THEN missing_fields(
                  add_issue(r, Issue("blocking", "quality", file.path, NoLine,
                                     "Missing Required Field: " \o required_fields[i])),
                  file, i + 1)
         ELSE missing_fields(r, file, i + 1)

\* config_flow_warning testing only the presence of the key.
config_flow_warning_absent_only(r, file) ==
    IF file.config_flow = "absent"
    THEN add_issue(r, Issue("warning", "pattern", file.path, NoLine,
                            "Config Flow Not Enabled"))
    ELSE r

config_flow_warning(r, file) ==
    IF file.config_flow # "true"
    THEN add_issue(r, Issue("warning", "pattern", file.path, NoLine,
                            "Config Flow Not Enabled"))
    ELSE r

\* _review_manifest going on to the config_flow check after a parse failure.
_review_manifest_keeps_checking(r, file) ==
    IF ~file.readable THEN Outcome(r, "OSError")
    ELSE IF file.json = "invalid"
    THEN Outcome(config_flow_warning(
                     add_issue(r, Issue("blocking", "quality", file.path, NoLine,
                                        "Invalid JSON")), file), "none")
    ELSE IF file.json = "scalar" THEN Outcome(r, "TypeError")
    ELSE IF file.json = "array"
    THEN Outcome(missing_fields(r, file, 1), "AttributeError")
    ELSE Outcome(config_flow_warning(missing_fields(r, file, 1), file), "none")

\* _review_manifest with the field loop starting one field late.
_review_manifest_skips_first_field(r, file) ==
    IF ~file.readable THEN Outcome(r, "OSError")
    ELSE IF file.json = "invalid"
    THEN Outcome(add_issue(r, Issue("blocking", "quality", file.path, NoLine,
                                    "Invalid JSON")), "none")
    ELSE IF file.json = "scalar" THEN Outcome(r, "TypeError")
    ELSE IF file.json = "array"
    THEN Outcome(missing_fields(r, file, 2), "AttributeError")
    ELSE Outcome(config_flow_warning(missing_fields(r, file, 2), file), "none")

_review_manifest(r, file) ==
    IF ~file.readable
    THEN \* read_text raised; only json.JSONDecodeError is caught
         Outcome(r, "OSError")
    ELSE IF file.json = "invalid"
    THEN Outcome(add_issue(r, Issue("blocking", "quality", file.path, NoLine,
                                    "Invalid JSON")), "none")
    ELSE IF file.json = "scalar"
    THEN \* field not in manifest: argument is not iterable
         Outcome(r, "TypeError")
    ELSE IF file.json = "array"
    THEN \* the membership tests work on a list, manifest.get does not exist
         Outcome(missing_fields(r, file, 1), "AttributeError")
    ELSE Outcome(config_flow_warning(missing_fields(r, file, 1), file), "none")

_review_strings(r, file) ==
    IF ~file.readable THEN Outcome(r, "OSError")
    ELSE IF file.json = "invalid"
    THEN Outcome(add_issue(r, Issue("blocking", "quality", file.path, NoLine,
                                    "Invalid JSON")), "none")
    ELSE Outcome(add_positive(r, "strings.json is valid JSON"), "none")

\* The body of the loop with a shortcut: once the result holds a blocking
\* issue the remaining artifacts are not looked at.
review_file_stops_at_blocking(r, file) ==
    IF has_blocking_issues(r) THEN Outcome(r, "none")
    ELSE IF suffix(file.path) = ".py" THEN _review_python_file(r, file)
    ELSE IF name(file.path) = "manifest.json" THEN _review_manifest(r, file)
    ELSE IF name(file.path) = "strings.json" THEN _review_strings(r, file)
    ELSE Outcome(r, "none")

\* The body of the loop of review_files.
review_file(r, file) ==
    IF suffix(file.path) = ".py" THEN _review_python_file(r, file)
    ELSE IF name(file.path) = "manifest.json" THEN _review_manifest(r, file)
    ELSE IF name(file.path) = "strings.json" THEN _review_strings(r, file)
    ELSE Outcome(r, "none")

(***************************************************************************)
(* The external tool steps.  A run of subprocess.run is a record:          *)
(*   outcome    "exit" (the tool ran and ended), "FileNotFoundError" (no   *)
(*              executable), "OSError" (another error of the launch, such  *)
(*              as PermissionError), "never_returns" (the tool does not    *)
(*              end: subprocess.run is called without a timeout)           *)
(*   returncode the exit code: 0, or 1 for any other code                  *)
(*   stdout     the output lines: TRUE for a line that contains "error:"   *)
(***************************************************************************)
Run(tool, outcome, returncode, stdout) ==
    [tool |-> tool, outcome |-> outcome, returncode |-> returncode,
     stdout |-> stdout]

NoRun == Run("none", "none", 0, << >>)

Runs(tool, outputs) ==
    { Run(tool, o, 0, << >>) : o \in {"FileNotFoundError", "OSError", "never_returns"} }
    \cup { Run(tool, "exit", rc, out) : rc \in {0, 1}, out \in outputs }

\* _run_linter with the test of the return code inverted.
_run_linter_inverted(r, run) ==
    IF run.outcome = "FileNotFoundError" THEN Outcome(r, "none")
    ELSE IF run.outcome # "exit" THEN Outcome(r, run.outcome)
    ELSE IF run.returncode # 0
    THEN Outcome(add_positive(r, "Ruff linter passes with no errors"), "none")
    ELSE Outcome(add_issue(r, Issue("warning", "quality", "multiple", NoLine,
                                    "Linting Errors")), "none")

\* _run_linter without its except FileNotFoundError clause.
_run_linter_not_found_raises(r, run) ==
    IF run.outcome # "exit" THEN Outcome(r, run.outcome)
    ELSE IF run.returncode = 0
    THEN Outcome(add_positive(r, "Ruff linter passes with no errors"), "none")
    ELSE Outcome(add_issue(r, Issue("warning", "quality", "multiple", NoLine,
                                    "Linting Errors")), "none")

_run_linter(r, run) ==
    IF run.outcome = "FileNotFoundError" THEN Outcome(r, "none")
    ELSE IF run.outcome # "exit" THEN Outcome(r, run.outcome)
    ELSE IF run.returncode = 0
    THEN Outcome(add_positive(r, "Ruff linter passes with no errors"), "none")
    ELSE Outcome(add_issue(r, Issue("warning", "quality", "multiple", NoLine,
                                    "Linting Errors")), "none")

\* len([line for line in result.stdout.split("\n") if "error:" in line])
RECURSIVE error_count(_)
error_count(stdout) ==
    IF stdout = << >> THEN 0
    ELSE (IF Head(stdout) THEN 1 ELSE 0) + error_count(Tail(stdout))

\* _run_type_checker without the guard error_count > 0.
_run_type_checker_always_warns(r, run) ==
    IF run.outcome = "FileNotFoundError" THEN Outcome(r, "none")
    ELSE IF run.outcome # "exit" THEN Outcome(r, run.outcome)
    ELSE IF run.returncode = 0
    THEN Outcome(add_positive(r, "Type checking passes with no errors"), "none")
    ELSE Outcome(add_issue(r, Issue("warning", "quality", "multiple", NoLine,
                                    "Type Check Errors ("
                                        \o ToString(error_count(run.stdout))
                                        \o ")")), "none")

_run_type_checker(r, run) ==
    IF run.outcome = "FileNotFoundError" THEN Outcome(r, "none")
    ELSE IF run.outcome # "exit" THEN Outcome(r, run.outcome)
    ELSE IF run.returncode = 0
    THEN Outcome(add_positive(r, "Type checking passes with no errors"), "none")
    ELSE IF error_count(run.stdout) > 0
    THEN Outcome(add_issue(r, Issue("warning", "quality", "multiple", NoLine,
                                    "Type Check Errors ("
                                        \o ToString(error_count(run.stdout))
                                        \o ")")), "none")
    ELSE Outcome(r, "none")

\* coverage.json as the step finds it: "missing", "malformed" (json.loads
\* or the key lookup raises) or "ok" with totals.percent_covered.
CoverageFile(state, percent) == [state |-> state, percent |-> percent]

Unread == CoverageFile("unread", 0)

CoverageFiles(percents) ==
    { CoverageFile("missing", 0), CoverageFile("malformed", 0) }
    \cup { CoverageFile("ok", p) : p \in percents }

\* classify_coverage with > 80 for >= 80.
classify_coverage_above_80(r) ==
    IF r.coverage_percent > 80
    THEN add_positive(r, "Excellent test coverage: "
                             \o ToString(r.coverage_percent) \o ".0%")
    ELSE IF r.coverage_percent >= 60
    THEN add_issue(r, Issue("warning", "testing", "tests/", NoLine,
                            "Test Coverage Below Target"))
    ELSE add_issue(r, Issue("blocking", "testing", "tests/", NoLine,
                            "Insufficient Test Coverage"))

\* classify_coverage with a warning for a percentage below 60.
classify_coverage_low_warns(r) ==
    IF r.coverage_percent >= 80
    THEN add_positive(r, "Excellent test coverage: "
                             \o ToString(r.coverage_percent) \o ".0%")
    ELSE IF r.coverage_percent >= 60
    THEN add_issue(r, Issue("warning", "testing", "tests/", NoLine,
                            "Test Coverage Below Target"))
    ELSE add_issue(r, Issue("warning", "testing", "tests/", NoLine,
                            "Insufficient Test Coverage"))

classify_coverage(r) ==
    IF r.coverage_percent >= 80
    THEN add_positive(r, "Excellent test coverage: "
                             \o ToString(r.coverage_percent) \o ".0%")
    ELSE IF r.coverage_percent >= 60
    THEN add_issue(r, Issue("warning", "testing", "tests/", NoLine,
                            "Test Coverage Below Target"))
    ELSE add_issue(r, Issue("blocking", "testing", "tests/", NoLine,
                            "Insufficient Test Coverage"))

_check_test_coverage(r, run, cf) ==
    IF run.outcome # "exit"
    THEN \* except Exception prints and returns
         Outcome(r, "none")
    ELSE IF cf.state # "ok" THEN Outcome(r, "none")
    ELSE Outcome(classify_coverage([r EXCEPT !.coverage_percent = cf.percent]),
                 "none")

(***************************************************************************)
(* _assess_quality_tier.                                                   *)
(***************************************************************************)
\* quality_tier with "and" for the "or" of the second rule.
quality_tier_needs_both(r, tests) ==
    IF has_blocking_issues(r) THEN "Below Bronze"
    ELSE IF ~tests /\ r.coverage_percent < 60 THEN "Bronze (needs testing)"
    ELSE IF r.coverage_percent >= 80 /\ Len(r.warnings) = 0 THEN "Gold"
    ELSE IF r.coverage_percent >= 60 THEN "Silver"
    ELSE "Bronze"

\* quality_tier with the blocking rule after the coverage rules.
quality_tier_coverage_first(r, tests) ==
    IF ~tests \/ r.coverage_percent < 60 THEN "Bronze (needs testing)"
    ELSE IF r.coverage_percent >= 80 /\ Len(r.warnings) = 0 THEN "Gold"
    ELSE IF has_blocking_issues(r) THEN "Below Bronze"
    ELSE IF r.coverage_percent >= 60 THEN "Silver"
    ELSE "Bronze"

quality_tier(r, tests) ==
    IF has_blocking_issues(r) THEN "Below Bronze"
    ELSE IF ~tests \/ r.coverage_percent < 60 THEN "Bronze (needs testing)"
    ELSE IF r.coverage_percent >= 80 /\ Len(r.warnings) = 0 THEN "Gold"
    ELSE IF r.coverage_percent >= 60 THEN "Silver"
    ELSE "Bronze"

_assess_quality_tier(r, tests) == [r EXCEPT !.quality_tier = quality_tier(r, tests)]

(***************************************************************************)
(* The inputs of the model.                                                *)
(***************************************************************************)
AllFields == { required_fields[i] : i \in 1..Len(required_fields) }

PublicDef == Node("FunctionDef", "setup", FALSE, "none")

\* The artifacts of whole runs.
Catalogue ==
    { PyFile(SensorPy, TRUE, << {"hardcoded_key"} >>, "ok", NoLine, << PublicDef >>),
      PyFile(SensorPy, TRUE, << PlainLine >>, "ok", NoLine, << >>),
      PyFile(SensorPy, TRUE, << PlainLine >>, "SyntaxError", <<1>>, << PublicDef >>),
      PyFile(SensorPy, FALSE, << >>, "none", NoLine, << >>),
      JsonFile(ManifestJson, TRUE, "object", AllFields, "true"),
      JsonFile(ManifestJson, TRUE, "object", AllFields \ {"name", "version"}, "absent"),
      JsonFile(ManifestJson, TRUE, "invalid", {}, "absent"),
      JsonFile(ManifestJson, TRUE, "array", {}, "absent"),
      JsonFile(ManifestJson, FALSE, "none", {}, "absent"),
      JsonFile(StringsJson, TRUE, "object", {}, "absent"),
      JsonFile(StringsJson, TRUE, "invalid", {}, "absent"),
      JsonFile(StringsJson, FALSE, "none", {}, "absent"),
      OtherFile(ReadmeMd) }

\* The coverage percentages of whole runs: both sides of 60 and of 80.
CoverageSamples == {0, 59, 60, 79, 80, MaxCoverage}

Outputs == SeqsUpTo(BOOLEAN, MaxStdout)

(***************************************************************************)
(* review_files, one step at a time.                                       *)
(***************************************************************************)
Init ==
    /\ result = ReviewResult
    /\ files \in SeqsUpTo(Catalogue, MaxFiles)
    /\ idx = 0
    /\ pc = "start"
    /\ has_tests \in BOOLEAN
    /\ proc = NoRun
    /\ coverage_file = Unread
    /\ calls = << >>
    /\ call_no = 1

\* self.result.files_reviewed = len(files)
Start ==
    /\ pc = "start"
    /\ result' = [result EXCEPT !.files_reviewed = Len(files)]
    /\ pc' = IF Len(files) = 0 THEN "linter" ELSE "files"
    /\ UNCHANGED <<files, idx, has_tests, proc, coverage_file, calls, call_no>>

\* One turn of "for file in files".
ReviewFile ==
    /\ pc = "files"
    /\ idx < Len(files)
    /\ LET out == review_file(result, files[idx + 1])
       IN  /\ result' = out.r
           /\ pc' = IF out.exc # "none" THEN "raised"
                    ELSE IF idx + 1 = Len(files) THEN "linter"
                    ELSE "files"
    /\ idx' = idx + 1
    /\ UNCHANGED <<files, has_tests, proc, coverage_file, calls, call_no>>

\* A tool step at position at: the subprocess does run, and out is what the
\* step makes of it.
ToolStep(at, next, run, out) ==
    /\ pc = at
    /\ proc' = run
    /\ IF run.outcome = "never_returns"
       THEN /\ result' = result
            /\ pc' = "blocked"
       ELSE /\ result' = out.r
            /\ pc' = IF out.exc = "none" THEN next ELSE "raised"
    /\ UNCHANGED <<files, idx, has_tests, calls, call_no>>

\* review_files without its call of _run_type_checker.
RunLinter_skips_type_checker ==
    \E run \in Runs("ruff", {<< >>}) :
        /\ ToolStep("linter", "coverage", run, _run_linter(result, run))
        /\ UNCHANGED coverage_file

RunLinter ==
    \E run \in Runs("ruff", {<< >>}) :
        /\ ToolStep("linter", "type_checker", run, _run_linter(result, run))
        /\ UNCHANGED coverage_file

RunTypeChecker ==
    \E run \in Runs("mypy", Outputs) :
        /\ ToolStep("type_checker", "coverage", run, _run_type_checker(result, run))
        /\ UNCHANGED coverage_file

CheckTestCoverage(percents) ==
    \E run \in Runs("pytest", {<< >>}), cf \in CoverageFiles(percents) :
        /\ ToolStep("coverage", "assess", run, _check_test_coverage(result, run, cf))
        /\ coverage_file' = IF run.outcome = "exit" THEN cf ELSE coverage_file

AssessQualityTier ==
    /\ pc = "assess"
    /\ result' = _assess_quality_tier(result, has_tests)
    /\ pc' = "done"
    /\ UNCHANGED <<files, idx, has_tests, proc, coverage_file, calls, call_no>>

Next ==
    \/ Start
    \/ ReviewFile
    \/ RunLinter
    \/ RunTypeChecker
    \/ CheckTestCoverage(CoverageSamples)
    \/ AssessQualityTier

Spec == Init /\ [][Next]_vars

(***************************************************************************)
(* The detectors on every artifact up to MaxLines lines or MaxNodes nodes,  *)
(* alone or after an artifact that has left issues.                        *)
(***************************************************************************)
\* Texts: every sequence of lines with no declaration or one, and one plain
\* line with every sequence of declarations.
PyTexts ==
    ({ l \in SeqsUpTo(LineKinds, MaxLines) : Len(l) >= 1 } \X {<< >>, << PublicDef >>})
    \cup ({<< PlainLine >>} \X SeqsUpTo(NodeKinds, MaxNodes))

PyFiles ==
    { PyFile(p, TRUE, t[1], "ok", NoLine, t[2]) : p \in {SensorPy, TestPy}, t \in PyTexts }
    \cup { PyFile(p, TRUE, t[1], "SyntaxError", <<Len(t[1])>>, t[2]) :
             p \in {SensorPy, TestPy}, t \in PyTexts }
    \cup { PyFile(SensorPy, FALSE, << >>, "none", NoLine, << >>) }

JsonFiles ==
    { JsonFile(ManifestJson, TRUE, j, k, c) :
        j \in {"object", "array"}, k \in SUBSET AllFields,
        c \in {"absent", "false", "true"} }
    \cup { JsonFile(p, r, j, {}, "absent") :
             p \in {ManifestJson, StringsJson}, r \in BOOLEAN,
             j \in {"invalid", "scalar", "object"} }

Earlier == PyFile(SensorPy, TRUE, << {"hardcoded_key"} >>, "ok", NoLine, << PublicDef >>)

InitDetect ==
    /\ result = ReviewResult
    /\ \E a \in PyFiles \cup JsonFiles \cup {OtherFile(ReadmeMd)} :
           files \in { <<a>>, <<Earlier, a>>, <<a, Earlier>> }
    /\ idx = 0
    /\ pc = "start"
    /\ has_tests \in BOOLEAN
    /\ proc = NoRun
    /\ coverage_file = Unread
    /\ calls = << >>
    /\ call_no = 1

NextDetect ==
    \/ Start
    \/ ReviewFile

SpecDetect == InitDetect /\ [][NextDetect]_vars

(***************************************************************************)
(* The tool steps on every output and every coverage percentage.           *)
(***************************************************************************)
InitTools ==
    /\ result = ReviewResult
    /\ files \in { << >>, <<Earlier>> }
    /\ idx = 0
    /\ pc = "start"
    /\ has_tests \in BOOLEAN
    /\ proc = NoRun
    /\ coverage_file = Unread
    /\ calls = << >>
    /\ call_no = 1

NextTools ==
    \/ Start
    \/ ReviewFile
    \/ RunLinter
    \/ RunTypeChecker
    \/ CheckTestCoverage(0..MaxCoverage)
    \/ AssessQualityTier

SpecTools == InitTools /\ [][NextTools]_vars

(***************************************************************************)
(* _assess_quality_tier on every combination of its four inputs.           *)
(***************************************************************************)
ABlocking == Issue("blocking", "security", SensorPy, <<1>>, "Hardcoded Credential")
AWarning == Issue("warning", "quality", "multiple", NoLine, "Linting Errors")
ANitpick == Issue("nitpick", "documentation", SensorPy, NoLine, "Wording")

InitAssess ==
    /\ \E b \in {<< >>, <<ABlocking>>}, w \in SeqsUpTo({AWarning}, MaxWarnings),
          c \in 0..MaxCoverage :
           result = [ReviewResult EXCEPT !.blocking = b, !.warnings = w,
                                         !.coverage_percent = c]
    /\ files = << >>
    /\ idx = 0
    /\ pc = "assess"
    /\ has_tests \in BOOLEAN
    /\ proc = NoRun
    /\ coverage_file = Unread
    /\ calls = << >>
    /\ call_no = 1

SpecAssess == InitAssess /\ [][AssessQualityTier]_vars

(***************************************************************************)
(* A ReviewResult under any sequence of add_issue calls.                   *)
(***************************************************************************)
IssueSamples ==
    { ABlocking, AWarning, ANitpick,
      Issue("blocking", "quality", ManifestJson, NoLine, "Invalid JSON"),
      Issue("warning", "pattern", ManifestJson, NoLine, "Config Flow Not Enabled"),
      Issue("nitpick", "quality", SensorPy, <<2>>, "Naming") }

InitResult ==
    /\ result = ReviewResult
    /\ files = << >>
    /\ idx = 0
    /\ pc = "result"
    /\ has_tests = FALSE
    /\ proc = NoRun
    /\ coverage_file = Unread
    /\ calls = << >>
    /\ call_no = 1

AddIssue ==
    /\ pc = "result"
    /\ Len(calls) < MaxCalls
    /\ \E issue \in IssueSamples :
           /\ result' = add_issue(result, issue)
           /\ calls' = Append(calls, issue)
    /\ UNCHANGED <<files, idx, pc, has_tests, proc, coverage_file, call_no>>

SpecResult == InitResult /\ [][AddIssue]_vars

(***************************************************************************)
(* A ReviewResult under any sequence of the mutations the program makes:  *)
(* add_issue, positives.append, and the assignments to coverage_percent   *)
(* and quality_tier.                                                       *)
(***************************************************************************)
Tiers == {"Below Bronze", "Bronze (needs testing)", "Gold", "Silver", "Bronze"}

\* self.result.positives.append(note)
AppendPositive ==
    /\ pc = "result"
    /\ Len(result.positives) < MaxNotes
    /\ result' = add_positive(result, "strings.json is valid JSON")
    /\ UNCHANGED <<files, idx, pc, has_tests, proc, coverage_file, calls, call_no>>

\* self.result.coverage_percent = percent
SetCoverage ==
    /\ pc = "result"
    /\ \E c \in {0, MaxCoverage} : result' = [result EXCEPT !.coverage_percent = c]
    /\ UNCHANGED <<files, idx, pc, has_tests, proc, coverage_file, calls, call_no>>

\* self.result.quality_tier = tier
SetTier ==
    /\ pc = "result"
    /\ \E t \in Tiers : result' = [result EXCEPT !.quality_tier = t]
    /\ UNCHANGED <<files, idx, pc, has_tests, proc, coverage_file, calls, call_no>>

NextMutate ==
    \/ AddIssue
    \/ AppendPositive
    \/ SetCoverage
    \/ SetTier

SpecMutate == InitResult /\ [][NextMutate]_vars

(***************************************************************************)
(* Several review_files calls on one CodeReviewer.  self.result is the     *)
(* ReviewResult made in __init__; review_files does not make another.      *)
(***************************************************************************)
StringsOk == JsonFile(StringsJson, TRUE, "object", {}, "absent")

AgainFiles == { << >>, <<Earlier>>, <<StringsOk>> }

InitAgain ==
    /\ result = ReviewResult
    /\ files \in AgainFiles
    /\ idx = 0
    /\ pc = "start"
    /\ has_tests \in BOOLEAN
    /\ proc = NoRun
    /\ coverage_file = Unread
    /\ calls = << >>
    /\ call_no = 1

\* review_files has returned and is called once more on the same object.
ReviewAgain ==
    /\ pc = "done"
    /\ call_no < MaxReviews
    /\ call_no' = call_no + 1
    /\ files' \in AgainFiles
    /\ idx' = 0
    /\ pc' = "start"
    /\ proc' = NoRun
    /\ coverage_file' = Unread
    /\ UNCHANGED <<result, has_tests, calls>>

NextAgain ==
    \/ Start
    \/ ReviewFile
    \/ RunLinter
    \/ RunTypeChecker
    \/ CheckTestCoverage(CoverageSamples)
    \/ AssessQualityTier
    \/ ReviewAgain

SpecAgain == InitAgain /\ [][NextAgain]_vars

(***************************************************************************)
(* review_files on every list, in every order, of artifacts that leave     *)
(* issues, notes or an exception.                                          *)
(***************************************************************************)
\* "for file in files" from the i-th artifact on: the loop ends with the
\* list or with the first exception.
RECURSIVE review_loop(_, _, _)
review_loop(r, fs, i) ==
    IF i > Len(fs) THEN Outcome(r, "none")
    ELSE LET out == review_file(r, fs[i])
         IN  IF out.exc # "none" THEN out
             ELSE review_loop(out.r, fs, i + 1)

\* The step of review_files at a tool position.
tool_step(at, r, run, cf) ==
    CASE at = "linter" -> _run_linter(r, run)
      [] at = "type_checker" -> _run_type_checker(r, run)
      [] OTHER -> _check_test_coverage(r, run, cf)

PermuteCatalogue ==
    { Earlier,
      JsonFile(ManifestJson, TRUE, "object", AllFields \ {"name"}, "true"),
      JsonFile(ManifestJson, TRUE, "array", {}, "absent"),
      StringsOk,
      JsonFile(StringsJson, TRUE, "invalid", {}, "absent") }

InitPermute ==
    /\ result = ReviewResult
    /\ files \in SeqsUpTo(PermuteCatalogue, MaxFiles)
    /\ idx = 0
    /\ pc = "start"
    /\ has_tests \in BOOLEAN
    /\ proc = NoRun
    /\ coverage_file = Unread
    /\ calls = << >>
    /\ call_no = 1

SpecPermute == InitPermute /\ [][Next]_vars

(***************************************************************************)
(* Properties.                                                             *)
(***************************************************************************)
Elems(s) == { s[i] : i \in 1..Len(s) }

Count(s, x) == Cardinality({ i \in 1..Len(s) : s[i] = x })

\* new is old with issues appended; Added is what was appended.
Extends(old, new) == Len(new) >= Len(old) /\ SubSeq(new, 1, Len(old)) = old

Added(old, new) == SubSeq(new, Len(old) + 1, Len(new))

Titled(s, title) == Cardinality({ i \in 1..Len(s) : s[i].title = title })

\* C1: after any sequence of add_issue calls every issue passed in sits in
\* the bucket of its severity, as often as it was passed, and in no other
\* bucket; the buckets are pairwise disjoint; total_issues() is the sum of
\* the bucket sizes and the number of calls.
C1_Buckets ==
    /\ \A x \in Elems(calls) :
           /\ Count(result.blocking, x) =
                  (IF x.severity = "blocking" THEN Count(calls, x) ELSE 0)
           /\ Count(result.warnings, x) =
                  (IF x.severity = "warning" THEN Count(calls, x) ELSE 0)
           /\ Count(result.nitpicks, x) =
                  (IF x.severity = "nitpick" THEN Count(calls, x) ELSE 0)
    /\ Elems(result.blocking) \cap Elems(result.warnings) = {}
    /\ Elems(result.blocking) \cap Elems(result.nitpicks) = {}
    /\ Elems(result.warnings) \cap Elems(result.nitpicks) = {}
    /\ total_issues(result) =
           Len(result.blocking) + Len(result.warnings) + Len(result.nitpicks)
    /\ total_issues(result) = Len(calls)

C1_Witness ==
    /\ Len(calls) = 4
    /\ Len(result.blocking) = 2
    /\ Len(result.warnings) = 1
    /\ Len(result.nitpicks) = 1

\* C2: the tier _assess_quality_tier sets is the first match of the table
\* (1) blocking -> Below Bronze, (2) no tests or coverage < 60 -> Bronze
\* (needs testing), (3) coverage >= 80 and no warning -> Gold, (4) coverage
\* >= 60 -> Silver, (5) Bronze; 85 with no warning is Gold, 70 with one
\* warning is Silver.
C2_DecisionTable ==
    pc = "done" =>
        LET b == Len(result.blocking) > 0
            c == result.coverage_percent
            w == Len(result.warnings)
            rule2 == ~has_tests \/ c < 60
            rule3 == c >= 80 /\ w = 0
            rule4 == c >= 60
            tier == result.quality_tier
        IN  /\ b => tier = "Below Bronze"
            /\ ~b /\ rule2 => tier = "Bronze (needs testing)"
            /\ ~b /\ ~rule2 /\ rule3 => tier = "Gold"
            /\ ~b /\ ~rule2 /\ ~rule3 /\ rule4 => tier = "Silver"
            /\ ~b /\ ~rule2 /\ ~rule3 /\ ~rule4 => tier = "Bronze"
            /\ ~b /\ has_tests /\ c = 85 /\ w = 0 => tier = "Gold"
            /\ ~b /\ has_tests /\ c = 70 /\ w = 1 => tier = "Silver"

C2_Witness ==
    /\ pc = "done"
    /\ has_tests
    /\ result.blocking = << >>
    /\ result.coverage_percent = 70
    /\ Len(result.warnings) = 1
    /\ result.quality_tier = "Silver"

\* C3: a review_files run that returns with a blocking issue in its result
\* has the tier Below Bronze, whatever the coverage, the tests directory and
\* the warnings.
C3_BlockingDominates ==
    (pc = "done" /\ Len(result.blocking) > 0) => result.quality_tier = "Below Bronze"

C3_Witness ==
    /\ pc = "done"
    /\ has_tests
    /\ result.coverage_percent >= 80
    /\ result.warnings = << >>
    /\ Len(result.blocking) > 0
    /\ result.quality_tier = "Below Bronze"

\* C4: no error in one artifact or in one external tool aborts the batch:
\* review_files is never left by an exception.
C4_NeverAborts == pc # "raised"

\* The step of review_files on the artifact f leaves every bucket extended.
BucketsExtended ==
    /\ Extends(result.blocking, result'.blocking)
    /\ Extends(result.warnings, result'.warnings)
    /\ Extends(result.nitpicks, result'.nitpicks)

AddedIssues ==
    Added(result.blocking, result'.blocking)
        \o Added(result.warnings, result'.warnings)
        \o Added(result.nitpicks, result'.nitpicks)

StructuralTitles == {"Missing Return Type Hint", "Broad Exception Catching"}

\* What C5 asks of one step of the file loop.
C5_SyntaxErrorStep ==
    (pc = "files" /\ idx < Len(files)) =>
        LET f == files[idx + 1]
            new == AddedIssues
        IN  /\ (suffix(f.path) = ".py" /\ f.readable /\ f.parse = "SyntaxError") =>
                   /\ BucketsExtended
                   /\ Cardinality({ i \in 1..Len(new) : new[i].category = "quality" }) = 1
                   /\ \A i \in 1..Len(new) :
                          /\ new[i].title \notin StructuralTitles
                          /\ new[i].category = "quality" =>
                                 /\ new[i].title = "Syntax Error"
                                 /\ new[i].severity = "blocking"
                                 /\ new[i].line = f.lineno
                                 /\ new[i].file = f.path
                   /\ Added(result.blocking, result'.blocking) # << >>
                   /\ Added(result.warnings, result'.warnings) = << >>
            /\ (f = Earlier /\ idx >= 1 /\ files[idx].parse = "SyntaxError") =>
                   /\ BucketsExtended
                   /\ Titled(new, "Missing Return Type Hint") = 1

\* C5: for a Python artifact whose parse raises SyntaxError the step adds
\* exactly one issue of category quality, the blocking Syntax Error with the
\* parser's line, and no structural issue; an artifact reviewed after it
\* still gets its structural warning.
C5_SyntaxError == [][C5_SyntaxErrorStep]_vars

C5_Witness ==
    /\ pc = "linter"
    /\ Len(files) = 1
    /\ files[1].parse = "SyntaxError"
    /\ files[1].nodes = << PublicDef >>
    /\ files[1].lineno = <<2>>
    /\ result.warnings = << >>
    /\ result.blocking =
           << Issue("blocking", "quality", SensorPy, <<2>>, "Syntax Error") >>

\* What C6 asks of one step of the file loop.
C6_RequiredFieldsStep ==
    (pc = "files" /\ idx < Len(files)) =>
        LET f == files[idx + 1]
            new == Added(result.blocking, result'.blocking)
        IN  (name(f.path) = "manifest.json" /\ f.readable /\ f.json = "object") =>
                /\ BucketsExtended
                /\ \A fld \in AllFields :
                       Titled(new, "Missing Required Field: " \o fld) =
                           (IF fld \in f.keys THEN 0 ELSE 1)
                /\ Len(new) = Cardinality(AllFields \ f.keys)
                /\ \A i \in 1..Len(new) : new[i].severity = "blocking"

\* C6: for a manifest that parses to a key/value document the step adds one
\* blocking issue per absent required field, titled with that field, none
\* for a present field: k missing fields give exactly k blocking issues.
C6_RequiredFields == [][C6_RequiredFieldsStep]_vars

C6_Witness ==
    /\ pc = "linter"
    /\ Len(files) = 1
    /\ files[1].json = "object"
    /\ files[1].readable
    /\ files[1].keys = AllFields \ {"domain", "iot_class"}
    /\ Len(result.blocking) = 2
    /\ result.blocking[1].title = "Missing Required Field: domain"
    /\ result.blocking[2].title = "Missing Required Field: iot_class"

\* What C7 asks of one step of the file loop.
C7_InvalidManifestStep ==
    (pc = "files" /\ idx < Len(files)) =>
        LET f == files[idx + 1]
            new == Added(result.blocking, result'.blocking)
        IN  (name(f.path) = "manifest.json" /\ f.readable /\ f.json = "invalid") =>
                /\ Extends(result.blocking, result'.blocking)
                /\ Len(new) = 1
                /\ new[1].severity = "blocking"
                /\ new[1].category = "quality"
                /\ new[1].title = "Invalid JSON"
                /\ result' = [result EXCEPT !.blocking = result'.blocking]
                /\ pc' # "raised"

\* C7: for a manifest that fails to parse the step appends one blocking
\* issue of category quality and changes nothing else: no required-field
\* issue, no capability warning.
C7_InvalidManifest == [][C7_InvalidManifestStep]_vars

C7_Witness ==
    /\ pc = "files"
    /\ idx = 1
    /\ files[1].json = "invalid"
    /\ name(files[1].path) = "manifest.json"
    /\ Len(result.blocking) = 1
    /\ result.blocking[1].title = "Invalid JSON"
    /\ result.warnings = << >>

\* The tool a position of review_files runs.
ToolAt(at) ==
    CASE at = "linter" -> "ruff"
      [] at = "type_checker" -> "mypy"
      [] at = "coverage" -> "pytest"
      [] OTHER -> "none"

\* The step at pc runs its tool and the tool ends with an exit code.
ToolExits == proc'.tool = ToolAt(pc) /\ proc'.outcome = "exit"

AddedPositives == Added(result.positives, result'.positives)

ErrorLines(stdout) == Cardinality({ i \in 1..Len(stdout) : stdout[i] })

\* What C8 asks of one coverage step.
C8_CoverageStep ==
    (ToolExits /\ pc = "coverage" /\ coverage_file'.state = "ok") =>
        LET p == coverage_file'.percent
            newW == Added(result.warnings, result'.warnings)
            newB == Added(result.blocking, result'.blocking)
        IN  /\ result'.coverage_percent = p
            /\ BucketsExtended
            /\ Extends(result.positives, result'.positives)
            /\ p >= 80 => Len(AddedPositives) = 1 /\ AddedIssues = << >>
            /\ (p >= 60 /\ p < 80) =>
                   /\ AddedPositives = << >>
                   /\ Len(AddedIssues) = 1
                   /\ Len(newW) = 1
                   /\ newW[1].severity = "warning"
                   /\ newW[1].category = "testing"
            /\ p < 60 =>
                   /\ AddedPositives = << >>
                   /\ Len(AddedIssues) = 1
                   /\ Len(newB) = 1
                   /\ newB[1].severity = "blocking"
                   /\ newB[1].category = "testing"

\* C8: when the coverage step reads a percentage p it records p and adds
\* one positive note and no issue for p >= 80, one warning of category
\* testing for 60 <= p < 80, one blocking issue of category testing for
\* p < 60.
C8_Coverage == [][C8_CoverageStep]_vars

C8_Witness ==
    /\ pc = "assess"
    /\ coverage_file = CoverageFile("ok", 79)
    /\ result.coverage_percent = 79
    /\ result.positives = << >>
    /\ result.blocking = << >>
    /\ Len(result.warnings) = 1
    /\ result.warnings[1].title = "Test Coverage Below Target"

\* What C9 as stated asks of one tool step.
C9_NonZeroExitStep ==
    (ToolExits /\ proc'.returncode # 0) =>
        LET newW == Added(result.warnings, result'.warnings)
        IN  /\ BucketsExtended
            /\ Len(AddedIssues) = 1
            /\ Len(newW) = 1
            /\ pc = "type_checker" =>
                   newW[1].title =
                       "Type Check Errors (" \o ToString(ErrorLines(proc'.stdout)) \o ")"

\* C9 as stated: a tool that is found and exits with a non-zero code adds
\* exactly one warning issue, for each of the three tools; the type
\* checker's title holds the number of error: lines.
C9_NonZeroExit == [][C9_NonZeroExitStep]_vars

\* What C9 amended asks of one tool step.
C9_NonZeroExitAmendedStep ==
    (ToolExits /\ proc'.returncode # 0) =>
        LET newW == Added(result.warnings, result'.warnings)
            n == ErrorLines(proc'.stdout)
        IN  /\ BucketsExtended
            /\ pc = "linter" =>
                   /\ Len(AddedIssues) = 1
                   /\ Len(newW) = 1
                   /\ newW[1].title = "Linting Errors"
                   /\ AddedPositives = << >>
            /\ (pc = "type_checker" /\ n > 0) =>
                   /\ Len(AddedIssues) = 1
                   /\ Len(newW) = 1
                   /\ newW[1].title = "Type Check Errors (" \o ToString(n) \o ")"
                   /\ AddedPositives = << >>
            /\ (pc = "type_checker" /\ n = 0) => result' = result
            /\ (pc = "coverage" /\ coverage_file'.state # "ok") => result' = result
            /\ (pc = "coverage" /\ coverage_file'.state = "ok") =>
                   /\ Len(AddedIssues) + Len(AddedPositives) = 1
                   /\ \A i \in 1..Len(AddedIssues) : AddedIssues[i].category = "testing"

\* C9 amended: on a non-zero exit the linter adds exactly one warning; the
\* type checker adds exactly one warning, its title holding the number n of
\* error: lines, when n > 0 and nothing when n = 0; the coverage step adds
\* no issue for the exit code: nothing without a readable coverage report,
\* and with one only the note or issue of category testing that classifies
\* the percentage.
C9_NonZeroExitAmended == [][C9_NonZeroExitAmendedStep]_vars

C9_Witness ==
    /\ pc = "coverage"
    /\ proc = Run("mypy", "exit", 1, <<TRUE, TRUE>>)
    /\ Len(result.warnings) = 1
    /\ result.warnings[1].title = "Type Check Errors (2)"

\* What C10 as stated asks of one tool step.
C10_ZeroExitStep ==
    (ToolExits /\ proc'.returncode = 0) =>
        /\ Extends(result.positives, result'.positives)
        /\ Len(AddedPositives) = 1
        /\ BucketsExtended
        /\ AddedIssues = << >>

\* C10 as stated: a tool that exits with code 0 adds exactly one positive
\* note and no issue, for each of the three tools.
C10_ZeroExit == [][C10_ZeroExitStep]_vars

\* What C10 amended asks of one tool step.
C10_ZeroExitAmendedStep ==
    (ToolExits /\ proc'.returncode = 0) =>
        /\ Extends(result.positives, result'.positives)
        /\ BucketsExtended
        /\ pc \in {"linter", "type_checker"} =>
               Len(AddedPositives) = 1 /\ AddedIssues = << >>
        /\ (pc = "coverage" /\ coverage_file'.state = "ok"
                /\ coverage_file'.percent >= 80) =>
               Len(AddedPositives) = 1 /\ AddedIssues = << >>
        /\ (pc = "coverage" /\ coverage_file'.state = "ok"
                /\ coverage_file'.percent < 80) =>
               AddedPositives = << >> /\ Len(AddedIssues) = 1
        /\ (pc = "coverage" /\ coverage_file'.state # "ok") => result' = result

\* C10 amended: the linter and the type checker add exactly one positive
\* note and no issue on exit code 0; the coverage step on exit code 0 adds
\* one positive note and no issue exactly when it reads a coverage report of
\* 80 or more, one issue and no note when it reads a lower percentage, and
\* nothing when it reads no report.
C10_ZeroExitAmended == [][C10_ZeroExitAmendedStep]_vars

C10_Witness ==
    /\ pc = "type_checker"
    /\ proc = Run("ruff", "exit", 0, << >>)
    /\ result.positives = << "Ruff linter passes with no errors" >>
    /\ total_issues(result) = 0

\* The position review_files takes up after the step at a position.
NextAt(at) ==
    CASE at = "linter" -> "type_checker"
      [] at = "type_checker" -> "coverage"
      [] at = "coverage" -> "assess"
      [] OTHER -> "done"

\* What C11 asks of one tool step.
C11_NotFoundStep ==
    (proc'.tool = ToolAt(pc) /\ proc'.outcome = "FileNotFoundError") =>
        /\ result' = result
        /\ pc' = NextAt(pc)

\* C11: a tool step whose executable is not found adds no issue and no
\* positive note, leaves coverage_percent (and the rest of the result)
\* unchanged and is not left by an exception: review_files goes on to the
\* next tool or to the Quality Assessor.
C11_NotFound == [][C11_NotFoundStep]_vars

C11_Witness ==
    /\ pc = "done"
    /\ proc = Run("pytest", "FileNotFoundError", 0, << >>)
    /\ total_issues(result) = 0
    /\ result.positives = << >>
    /\ result.coverage_percent = 0
    /\ result.quality_tier # "Unknown"

\* C12: every tool invocation is bounded by a timeout, so review_files is
\* never held for ever by a tool that does not end.
C12_ToolsBounded == pc # "blocked"

\* The lines of f the credential rule matches and does not exclude.
CredentialLines(f) ==
    { i \in 1..Len(f.lines) :
        /\ "hardcoded_key" \in f.lines[i]
        /\ "comment" \notin f.lines[i]
        /\ ~has_test_marker(f.path) }

\* What C13 asks of one step of the file loop.
C13_CredentialStep ==
    (pc = "files" /\ idx < Len(files)) =>
        LET f == files[idx + 1]
            new == AddedIssues
            hits(i) == { j \in 1..Len(new) :
                           /\ new[j].title = "Hardcoded Credential"
                           /\ new[j].line = <<i>> }
        IN  (suffix(f.path) = ".py" /\ f.readable) =>
                /\ BucketsExtended
                /\ \A i \in 1..Len(f.lines) :
                       Cardinality(hits(i)) = (IF i \in CredentialLines(f) THEN 1 ELSE 0)
                /\ \A j \in 1..Len(new) :
                       new[j].title = "Hardcoded Credential" =>
                           /\ new[j].severity = "blocking"
                           /\ new[j].category = "security"
                           /\ new[j].file = f.path
                           /\ \E i \in 1..Len(f.lines) : new[j].line = <<i>>

\* C13: on a Python artifact the credential rule adds, for every line that
\* matches, is not a comment and lies in a path without 'test', exactly one
\* blocking security issue with the 1-based number of the line, and no issue
\* for a matching line that is a comment or lies in a path with 'test'.
C13_Credential == [][C13_CredentialStep]_vars

C13_Witness ==
    /\ pc = "linter"
    /\ Len(files) = 1
    /\ files[1].path = SensorPy
    /\ files[1].lines = << {"hardcoded_key", "comment"}, {"hardcoded_key"} >>
    /\ result.blocking =
           << Issue("blocking", "security", SensorPy, <<2>>, "Hardcoded Credential") >>

\* rule matches the content of f.
Matches(rule, f) == \E i \in 1..Len(f.lines) : rule \in f.lines[i]

\* The whole-artifact rules with the title of their issue, and those that
\* match f.
WholeRules ==
    { <<"sql_injection", "Potential SQL Injection">>,
      <<"eval_usage", "Unsafe eval() Usage">>,
      <<"shell_injection", "Shell Injection Risk">>,
      <<"requests_in_async", "Blocking I/O in Async Function">>,
      <<"blocking_sleep", "Blocking Sleep in Async Function">> }

InAsyncOnly == {"requests_in_async", "blocking_sleep"}

MatchingWholeRules(f) ==
    { w \in WholeRules :
        /\ Matches(w[1], f)
        /\ w[1] \in InAsyncOnly => Matches("async_def", f) }

\* What C14 asks of one step of the file loop.
C14_NoDeduplicationStep ==
    (pc = "files" /\ idx < Len(files)) =>
        LET f == files[idx + 1]
            new == AddedIssues
            pattern == { j \in 1..Len(new) : new[j].category \in {"security", "async"} }
        IN  (suffix(f.path) = ".py" /\ f.readable) =>
                /\ BucketsExtended
                /\ Cardinality(pattern) =
                       Cardinality(CredentialLines(f)) + Cardinality(MatchingWholeRules(f))
                /\ \A w \in WholeRules :
                       Titled(new, w[2]) = (IF w \in MatchingWholeRules(f) THEN 1 ELSE 0)

\* C14: on one Python artifact every matching rule adds its own issue and
\* none is suppressed: the number of pattern issues added is the number of
\* lines the credential rule reports plus the number of whole-artifact rules
\* (SQL injection, eval, shell injection, blocking I/O in async, blocking
\* sleep in async) that match, each of these adding one issue.
C14_NoDeduplication == [][C14_NoDeduplicationStep]_vars

C14_Witness ==
    /\ pc = "linter"
    /\ Len(files) = 1
    /\ files[1].path = SensorPy
    /\ files[1].lines = << {"hardcoded_key", "eval_usage"}, {"sql_injection"} >>
    /\ files[1].parse = "ok"
    /\ Len(result.blocking) = 3
    /\ Titled(result.blocking, "Hardcoded Credential") = 1
    /\ Titled(result.blocking, "Unsafe eval() Usage") = 1
    /\ Titled(result.blocking, "Potential SQL Injection") = 1

\* The declarations of f that C15 wants reported: functions, synchronous or
\* asynchronous, with a public name and no return annotation.
UnannotatedPublic(f) ==
    { k \in 1..Len(f.nodes) :
        /\ f.nodes[k].type \in {"FunctionDef", "AsyncFunctionDef"}
        /\ ~f.nodes[k].returns
        /\ ~is_private(f.nodes[k].name) }

\* What C15 asks of one step of the file loop.
C15_ReturnHintStep ==
    (pc = "files" /\ idx < Len(files)) =>
        LET f == files[idx + 1]
            new == Added(result.warnings, result'.warnings)
        IN  (suffix(f.path) = ".py" /\ f.readable /\ f.parse = "ok") =>
                /\ BucketsExtended
                /\ \A k \in 1..Len(f.nodes) :
                       Count(new, Issue("warning", "quality", f.path, node_lineno(k),
                                        "Missing Return Type Hint"))
                           = (IF k \in UnannotatedPublic(f) THEN 1 ELSE 0)
                /\ Titled(new, "Missing Return Type Hint") =
                       Cardinality(UnannotatedPublic(f))

\* C15: the syntax-tree detector adds exactly one quality warning for every
\* function declaration, synchronous or asynchronous, whose name does not
\* start with '_' and that has no return annotation, and none for a private
\* or an annotated function.
C15_ReturnHint == [][C15_ReturnHintStep]_vars

\* What C16 asks of one step of the file loop.
C16_ConfigFlowStep ==
    (pc = "files" /\ idx < Len(files)) =>
        LET f == files[idx + 1]
            new == AddedIssues
            pattern == { j \in 1..Len(new) : new[j].category = "pattern" }
        IN  (name(f.path) = "manifest.json" /\ f.readable /\ f.json = "object") =>
                /\ BucketsExtended
                /\ Cardinality(pattern) = (IF f.config_flow = "true" THEN 0 ELSE 1)
                /\ \A j \in pattern :
                       new[j] = Issue("warning", "pattern", f.path, NoLine,
                                      "Config Flow Not Enabled")
                /\ Added(result.warnings, result'.warnings) =
                       (IF f.config_flow = "true" THEN << >>
                        ELSE << Issue("warning", "pattern", f.path, NoLine,
                                      "Config Flow Not Enabled") >>)

\* C16: for a manifest that parses, the step adds exactly one warning of
\* category pattern when config_flow is absent or false and none when it is
\* true, whichever required fields are missing.
C16_ConfigFlow == [][C16_ConfigFlowStep]_vars

C16_Witness ==
    /\ pc = "linter"
    /\ Len(files) = 1
    /\ files[1].path = ManifestJson
    /\ files[1].json = "object"
    /\ files[1].config_flow = "false"
    /\ files[1].keys = {"domain", "name"}
    /\ Len(result.blocking) = 5
    /\ result.warnings =
           << Issue("warning", "pattern", ManifestJson, NoLine, "Config Flow Not Enabled") >>

\* C17: after every mutation of a ReviewResult (add_issue, an appended
\* positive note, an assignment to coverage_percent or quality_tier)
\* has_blocking_issues() is true exactly when the blocking bucket is not
\* empty, which is exactly when an issue of severity blocking has been added.
C17_HasBlocking ==
    /\ has_blocking_issues(result) <=> result.blocking # << >>
    /\ has_blocking_issues(result) <=>
           \E i \in 1..Len(calls) : calls[i].severity = "blocking"

C17_Witness ==
    /\ Len(calls) = 3
    /\ calls[1].severity = "warning"
    /\ calls[2].severity = "blocking"
    /\ calls[3].severity = "nitpick"
    /\ Len(result.positives) = 1
    /\ result.coverage_percent = MaxCoverage
    /\ result.quality_tier = "Gold"
    /\ has_blocking_issues(result)

\* The tool review_files runs before a tool.
ToolBefore(tool) ==
    CASE tool = "ruff" -> "none"
      [] tool = "mypy" -> "ruff"
      [] tool = "pytest" -> "mypy"
      [] OTHER -> "pytest"

\* What C18 asks of one step of review_files.
C18_PhaseOrderStep ==
    /\ idx' # idx =>
           /\ pc = "files"
           /\ proc = NoRun /\ proc' = NoRun
           /\ result.quality_tier = "Unknown"
    /\ proc' # proc =>
           /\ idx = Len(files)
           /\ proc'.tool = ToolAt(pc)
           /\ proc'.tool \in {"ruff", "mypy", "pytest"}
           /\ proc.tool = ToolBefore(proc'.tool)
           /\ pc' \in {NextAt(pc), "raised", "blocked"}
           /\ result.quality_tier = "Unknown" /\ result'.quality_tier = "Unknown"
    /\ result'.quality_tier # result.quality_tier =>
           /\ pc = "assess" /\ pc' = "done"
           /\ idx = Len(files)
           /\ proc.tool = "pytest" /\ proc' = proc
           /\ result.quality_tier = "Unknown"
    /\ pc = "assess" => result'.quality_tier # "Unknown"
    /\ result.quality_tier # "Unknown" => result' = result

\* C18: in a review_files run the detection on the artifacts comes first,
\* then ruff, mypy and pytest run once each in this order, and the Quality
\* Assessor runs once, last; after the tier is computed no issue, positive
\* note or coverage value is added.
C18_PhaseOrder == [][C18_PhaseOrderStep]_vars

C18_Witness ==
    /\ pc = "done"
    /\ Len(files) = 2
    /\ idx = 2
    /\ proc.tool = "pytest"
    /\ proc.outcome = "exit"
    /\ Len(result.positives) >= 3
    /\ total_issues(result) >= 2
    /\ result.quality_tier \in Tiers

\* What C19 asks of one step of review_files.
C19_AppendOnlyStep ==
    /\ BucketsExtended
    /\ Extends(result.positives, result'.positives)
    /\ pc = "assess" =>
           result' = [result EXCEPT !.quality_tier = result'.quality_tier]

\* C19: every step of a run leaves each bucket and the positives as an
\* extension of what it was (nothing is removed, moved, reordered or
\* changed), and the Quality Assessor changes quality_tier only, leaving the
\* buckets, the positives, coverage_percent and files_reviewed as they were.
C19_AppendOnly == [][C19_AppendOnlyStep]_vars

C19_Witness ==
    /\ pc = "done"
    /\ Len(result.blocking) >= 2
    /\ Len(result.warnings) >= 2
    /\ Len(result.positives) >= 2
    /\ result.blocking[1] # result.blocking[2]
    /\ result.warnings[1] # result.warnings[2]
    /\ result.quality_tier = "Below Bronze"

\* C20: for every coverage from 0 to 100, with or without blocking issues,
\* tests and warnings, the tier the Quality Assessor sets is Below Bronze,
\* Bronze (needs testing), Gold or Silver: the last branch, the plain Bronze,
\* is never taken.
C20_ElseUnreachable ==
    (pc = "done" /\ result.coverage_percent \in 0..MaxCoverage) =>
        /\ result.quality_tier \in
               {"Below Bronze", "Bronze (needs testing)", "Gold", "Silver"}
        /\ result.quality_tier # "Bronze"

C20_Witness ==
    /\ pc = "done"
    /\ has_tests
    /\ result.blocking = << >>
    /\ result.coverage_percent = 59
    /\ Len(result.warnings) = 2
    /\ result.quality_tier = "Bronze (needs testing)"

\* The issues of all three buckets.
AllIssues(r) == r.blocking \o r.warnings \o r.nitpicks

\* The file names an issue of this call can carry: the artifacts of the call
\* and the names the tool steps use.
OwnFiles == { files[i].path : i \in 1..Len(files) } \cup {"multiple", "tests/"}

\* C21: the result a review_files call returns holds only what that call
\* produced: every issue names an artifact of this call (or a tool step),
\* each tool step has left at most one issue or note, and coverage_percent
\* is the default unless this call read a coverage report.
C21_OwnResult ==
    pc = "done" =>
        /\ \A i \in 1..Len(AllIssues(result)) : AllIssues(result)[i].file \in OwnFiles
        /\ Titled(AllIssues(result), "Linting Errors")
               + Count(result.positives, "Ruff linter passes with no errors") <= 1
        /\ Count(result.positives, "Type checking passes with no errors") <= 1
        /\ Titled(AllIssues(result), "Insufficient Test Coverage")
               + Titled(AllIssues(result), "Test Coverage Below Target") <= 1
        /\ coverage_file.state # "ok" => result.coverage_percent = 0

\* C22: in a run that returns, a coverage percentage below 60 read from the
\* report comes with its blocking issue and the tier Below Bronze; the tier
\* Bronze (needs testing) is set only without a tests directory or without
\* a percentage read (coverage_percent still 0); Silver with a coverage from
\* 60 to 79 comes with at least one warning.
C22_CoverageAndTier ==
    pc = "done" =>
        /\ (coverage_file.state = "ok" /\ coverage_file.percent < 60) =>
               /\ Titled(result.blocking, "Insufficient Test Coverage") >= 1
               /\ result.quality_tier = "Below Bronze"
        /\ result.quality_tier = "Bronze (needs testing)" =>
               \/ ~has_tests
               \/ coverage_file.state # "ok" /\ result.coverage_percent = 0
        /\ (result.quality_tier = "Silver" /\ result.coverage_percent \in 60..79) =>
               Len(result.warnings) >= 1

C22_Witness ==
    /\ pc = "done"
    /\ has_tests
    /\ coverage_file = CoverageFile("ok", 59)
    /\ result.coverage_percent = 59
    /\ result.blocking =
           << Issue("blocking", "testing", "tests/", NoLine, "Insufficient Test Coverage") >>
    /\ result.warnings = << >>
    /\ result.quality_tier = "Below Bronze"

\* The orders of a sequence.
Reorder(s) == { [i \in 1..Len(s) |-> s[p[i]]] : p \in Permutations(1..Len(s)) }

\* The multiset of a sequence.
BagOf(s) == [x \in Elems(s) |-> Count(s, x)]

\* Two results with the same multiset in every bucket and in the positive
\* notes, and the same coverage_percent, files_reviewed and quality_tier.
SameOutcome(r1, r2) ==
    /\ BagOf(r1.blocking) = BagOf(r2.blocking)
    /\ BagOf(r1.warnings) = BagOf(r2.warnings)
    /\ BagOf(r1.nitpicks) = BagOf(r2.nitpicks)
    /\ BagOf(r1.positives) = BagOf(r2.positives)
    /\ r1.coverage_percent = r2.coverage_percent
    /\ r1.files_reviewed = r2.files_reviewed
    /\ r1.quality_tier = r2.quality_tier

\* The results that differ from r in the order inside the buckets and the
\* positive notes only.
Reorderings(r) ==
    { [r EXCEPT !.blocking = b, !.warnings = w, !.nitpicks = n, !.positives = p] :
        b \in Reorder(r.blocking), w \in Reorder(r.warnings),
        n \in Reorder(r.nitpicks), p \in Reorder(r.positives) }

\* The loop of a review_files call on the list q.
LoopOn(q) == review_loop([ReviewResult EXCEPT !.files_reviewed = Len(q)], q, 1)

\* What C23 asks of one step of review_files: the step that ends the loop
\* leaves what the loop leaves on every order of the list (and is left by an
\* exception only if the loop is on every order); a tool step and the Quality
\* Assessor, given the same tool outcome, take results that agree up to
\* order to results that agree up to order.
C23_OrderIndependentStep ==
    /\ (pc \in {"start", "files"} /\ pc' = "linter") =>
           \A q \in Reorder(files) :
               /\ LoopOn(q).exc = "none"
               /\ SameOutcome(LoopOn(q).r, result')
    /\ (pc = "files" /\ pc' = "raised") =>
           \A q \in Reorder(files) : LoopOn(q).exc # "none"
    /\ (pc \in {"linter", "type_checker", "coverage"} /\ pc' \in {NextAt(pc), "raised"}) =>
           \A r2 \in Reorderings(result) :
               LET out == tool_step(pc, r2, proc', coverage_file')
               IN  /\ out.exc = "none" <=> pc' = NextAt(pc)
                   /\ out.exc = "none" => SameOutcome(out.r, result')
    /\ pc = "assess" =>
           \A r2 \in Reorderings(result) :
               SameOutcome(_assess_quality_tier(r2, has_tests), result')

\* C23: the outcome of review_files does not depend on the order of the
\* artifacts: on every permutation of the list, with the same tool outcomes,
\* the run gives the same multiset of issues in each bucket, the same
\* multiset of positive notes and the same coverage_percent, files_reviewed
\* and quality_tier.
C23_OrderIndependent == [][C23_OrderIndependentStep]_vars

C23_Witness ==
    /\ pc = "done"
    /\ Len(files) = 2
    /\ files[1] = StringsOk
    /\ files[2] = Earlier
    /\ SameOutcome(LoopOn(<<Earlier, StringsOk>>).r,
                   [result EXCEPT !.quality_tier = "Unknown"])
    /\ LoopOn(<<Earlier, StringsOk>>).r.positives # << >>
    /\ Len(result.blocking) = 1
    /\ result.quality_tier = "Below Bronze"

====
